---- MODULE Spec2Model ----
(***************************************************************************)
(* Model of package idgenerator (src/idgenerator/idgenerator.go): three    *)
(* trace-id generators sharing one pseudo-random source (seededIDGen)      *)
(* guarded by one mutex (seededIDLock).                                    *)
(*                                                                         *)
(* A 64-bit word is a tuple of four 16-bit limbs, most significant first,  *)
(* so that shifts, additions and conversions keep their 64-bit width.      *)
(***************************************************************************)
EXTENDS Integers, Sequences, FiniteSets, TLC

\* ---------------------------------------------------------------- bounds
NumCallers == 2          \* concurrent goroutines calling TraceID
MaxCalls == 2            \* calls started in one behaviour

\* ------------------------------------------------------- 64-bit arithmetic
Base == 2^16
Half == 2^15

Zero64 == <<0, 0, 0, 0>>

\* uint64 addition, wrapping modulo 2^64 (the + of line 76)
Add64(a, b) ==
    LET s4 == a[4] + b[4]
        s3 == a[3] + b[3] + (s4 \div Base)
        s2 == a[2] + b[2] + (s3 \div Base)
        s1 == a[1] + b[1] + (s2 \div Base)
    IN  <<s1 % Base, s2 % Base, s3 % Base, s4 % Base>>

\* int64 << 32 : the upper 32 bits are shifted out, zeros come in
Shl32M(w) == <<w[2], w[3], w[4], 0>>
Shl32(w) == <<w[3], w[4], 0, 0>>

\* rand.Rand.Int63: the source's 64-bit output with the sign bit masked off
Int63M(raw) == raw
Int63(raw) == <<raw[1] % Half, raw[2], raw[3], raw[4]>>

\* rand.Rand.Int31: int32(Int63() >> 32), converted to uint64 by the caller
Int31M(raw) == Int63(raw)
Int31(raw) == <<0, 0, Int63(raw)[1], Int63(raw)[2]>>

\* unsigned comparison of two words, and of two 32-bit halves
Lt64(a, b) ==
    \/ a[1] < b[1]
    \/ a[1] = b[1] /\ a[2] < b[2]
    \/ a[1] = b[1] /\ a[2] = b[2] /\ a[3] < b[3]
    \/ a[1] = b[1] /\ a[2] = b[2] /\ a[3] = b[3] /\ a[4] < b[4]

Upper32(w) == <<w[1], w[2]>>
Lower32(w) == <<w[3], w[4]>>
Le32(x, y) == x[1] < y[1] \/ (x[1] = y[1] /\ x[2] <= y[2])

\* ------------------------------------------------------------ environment
\* The source is deterministic once seeded (line 17): a seed fixes the
\* sequence of its 64-bit outputs.  Each stream below is one such sequence,
\* repeated; AllOnes and SignOnly have the sign bit set.
AllOnes == <<65535, 65535, 65535, 65535>>
SignOnly == <<32768, 0, 0, 0>>
Mixed == <<1, 2, 3, 4>>

SeedStreams ==
    << <<AllOnes, AllOnes, Mixed, SignOnly>>,
       <<Mixed, SignOnly, AllOnes, Mixed, AllOnes>>,
       <<SignOnly, Mixed, Mixed>> >>

Seeds == 1..Len(SeedStreams)

\* the output of the source seeded with sd at position t (t = 0, 1, ...)
Output(sd, t) == SeedStreams[sd][(t % Len(SeedStreams[sd])) + 1]

\* values of time.Now().Unix(), ascending:
\*   1, 2^31 (year 2038), 2^32 + 1 (year 2106)
UnixSamples ==
    << <<0, 0, 0, 1>>,
       <<0, 0, 32768, 0>>,
       <<0, 1, 0, 1>> >>

Callers == 1..NumCallers
Free == 0

Variants == {"randomID64", "randomID128", "randomTimestamped"}

\* the constructors: each returns a pointer to an empty struct, which has
\* no field to tell one instance from another; its type is all it carries
NewRandom64 == [variant |-> "randomID64"]
NewRandom128 == [variant |-> "randomID128"]
NewRandomTimestamped == [variant |-> "randomTimestamped"]

Generators == {NewRandom64, NewRandom128, NewRandomTimestamped}

NoGen == [variant |-> "none"]

VARIABLES
    seed,            \* the seed the source was built with
    seededIDGen,     \* the shared source: number of outputs consumed so far
    seededIDLock,    \* the mutex: Free or the caller that locked it
    now,             \* the wall clock: index into UnixSamples
    pc,              \* per caller: position in TraceID
    gen,             \* per caller: the generator whose TraceID runs
    callNo,          \* per caller: number of the running call, in lock order
    k,               \* per caller: source position when the lock was taken
    tmp,             \* per caller: source position read by the running draw
    sec,             \* per caller: time.Now().Unix() as read
    r,               \* per caller: the Int31 value drawn
    id,              \* per caller: the TraceID being assembled
    started,         \* number of calls started
    locked,          \* number of times the lock was taken
    draws,           \* history: every output consumed, by position and call
    returned         \* history: every TraceID returned

vars == <<seed, seededIDGen, seededIDLock, now, pc, gen, callNo, k,
          tmp, sec, r, id, started, locked, draws, returned>>

locals == <<gen, callNo, k, tmp, sec, r, id>>

NewID == [High |-> Zero64, Low |-> Zero64]

Init ==
    /\ seed \in Seeds
    /\ seededIDGen = 0
    /\ seededIDLock = Free
    /\ now \in 1..Len(UnixSamples)
    /\ pc = [p \in Callers |-> "idle"]
    /\ gen = [p \in Callers |-> NoGen]
    /\ callNo = [p \in Callers |-> 0]
    /\ k = [p \in Callers |-> 0]
    /\ tmp = [p \in Callers |-> 0]
    /\ sec = [p \in Callers |-> Zero64]
    /\ r = [p \in Callers |-> Zero64]
    /\ id = [p \in Callers |-> NewID]
    /\ started = 0
    /\ locked = 0
    /\ draws = {}
    /\ returned = {}

\* ------------------------------------------------------------- the clock
ClockAdvance ==
    /\ now < Len(UnixSamples)
    /\ now' = now + 1
    /\ UNCHANGED <<seed, seededIDGen, seededIDLock, pc, locals,
                   started, locked, draws, returned>>

\* ------------------------------------------------------------- TraceID()
\* first statement after Lock() of each variant
AfterLockM(v) ==
    IF v = "randomTimestamped" THEN "Now" ELSE "High"
AfterLock(v) ==
    IF v = "randomID64" THEN "Low"
    ELSE IF v = "randomTimestamped" THEN "Now"
    ELSE "High"

\* what follows the High field of the composite literal
AfterHighM(v) == "Unlock"
AfterHigh(v) == "Low"

\* value of the High field (lines 63 and 76)
HighOfM(v, s, raw) ==
    IF v = "randomTimestamped" THEN Add64(Shl32(Int31(raw)), s)
    ELSE Int63(raw)
HighOf(v, s, raw) ==
    IF v = "randomTimestamped" THEN Add64(Shl32(s), Int31(raw))
    ELSE Int63(raw)

\* sync.Mutex.Lock blocks until the mutex is unlocked
CanLockM == TRUE
CanLock == seededIDLock = Free

\* sync.Mutex.Unlock
UnlockedM(p) == seededIDLock
Unlocked(p) == Free

Call(p, g) ==
    /\ pc[p] = "idle"
    /\ started < MaxCalls
    /\ started' = started + 1
    /\ gen' = [gen EXCEPT ![p] = g]
    /\ id' = [id EXCEPT ![p] = NewID]
    /\ pc' = [pc EXCEPT ![p] = "Lock"]
    /\ UNCHANGED <<seed, seededIDGen, seededIDLock, now, callNo, k, tmp, sec, r,
                   locked, draws, returned>>

Lock(p) ==
    /\ pc[p] = "Lock"
    /\ CanLock
    /\ seededIDLock' = p
    /\ locked' = locked + 1
    /\ callNo' = [callNo EXCEPT ![p] = locked + 1]
    /\ k' = [k EXCEPT ![p] = seededIDGen]
    /\ pc' = [pc EXCEPT ![p] = AfterLock(gen[p].variant)]
    /\ UNCHANGED <<seed, seededIDGen, now, gen, tmp, sec, r, id, started, draws,
                   returned>>

\* time.Now().Unix()
ReadClock(p) ==
    /\ pc[p] = "Now"
    /\ sec' = [sec EXCEPT ![p] = UnixSamples[now]]
    /\ pc' = [pc EXCEPT ![p] = "High"]
    /\ UNCHANGED <<seed, seededIDGen, seededIDLock, now, gen,
                   callNo, k, tmp, r, id, started, locked, draws, returned>>

\* a draw reads the state of the source ...
DrawHighRead(p) ==
    /\ pc[p] = "High"
    /\ tmp' = [tmp EXCEPT ![p] = seededIDGen]
    /\ pc' = [pc EXCEPT ![p] = "HighAdv"]
    /\ UNCHANGED <<seed, seededIDGen, seededIDLock, now, gen,
                   callNo, k, sec, r, id, started, locked, draws, returned>>

\* ... and writes it back advanced by one output
DrawHigh(p) ==
    /\ pc[p] = "HighAdv"
    /\ LET raw == Output(seed, tmp[p]) IN
        /\ draws' = draws \cup {[pos |-> tmp[p], call |-> callNo[p],
                                 field |-> "High", raw |-> raw]}
        /\ r' = [r EXCEPT ![p] =
                    IF gen[p].variant = "randomTimestamped"
                    THEN Int31(raw) ELSE Zero64]
        /\ id' = [id EXCEPT ![p].High = HighOf(gen[p].variant, sec[p], raw)]
    /\ seededIDGen' = tmp[p] + 1
    /\ pc' = [pc EXCEPT ![p] = AfterHigh(gen[p].variant)]
    /\ UNCHANGED <<seed, seededIDLock, now, gen, callNo, k, tmp,
                   sec, started, locked, returned>>

DrawLowRead(p) ==
    /\ pc[p] = "Low"
    /\ tmp' = [tmp EXCEPT ![p] = seededIDGen]
    /\ pc' = [pc EXCEPT ![p] = "LowAdv"]
    /\ UNCHANGED <<seed, seededIDGen, seededIDLock, now, gen,
                   callNo, k, sec, r, id, started, locked, draws, returned>>

DrawLow(p) ==
    /\ pc[p] = "LowAdv"
    /\ LET raw == Output(seed, tmp[p]) IN
        /\ draws' = draws \cup {[pos |-> tmp[p], call |-> callNo[p],
                                 field |-> "Low", raw |-> raw]}
        /\ id' = [id EXCEPT ![p].Low = Int63(raw)]
    /\ seededIDGen' = tmp[p] + 1
    /\ pc' = [pc EXCEPT ![p] = "Unlock"]
    /\ UNCHANGED <<seed, seededIDLock, now, gen, callNo, k, tmp,
                   sec, r, started, locked, returned>>

Unlock(p) ==
    /\ pc[p] = "Unlock"
    /\ seededIDLock' = Unlocked(p)
    /\ tmp' = [tmp EXCEPT ![p] = seededIDGen]
    /\ pc' = [pc EXCEPT ![p] = "Return"]
    /\ UNCHANGED <<seed, seededIDGen, now, gen, callNo, k, sec, r,
                   id, started, locked, draws, returned>>

Return(p) ==
    /\ pc[p] = "Return"
    /\ returned' = returned \cup
          {[call |-> callNo[p], variant |-> gen[p].variant,
            from |-> k[p], to |-> tmp[p], sec |-> sec[p], r |-> r[p],
            High |-> id[p].High, Low |-> id[p].Low]}
    /\ gen' = [gen EXCEPT ![p] = NoGen]
    /\ callNo' = [callNo EXCEPT ![p] = 0]
    /\ k' = [k EXCEPT ![p] = 0]
    /\ tmp' = [tmp EXCEPT ![p] = 0]
    /\ sec' = [sec EXCEPT ![p] = Zero64]
    /\ r' = [r EXCEPT ![p] = Zero64]
    /\ id' = [id EXCEPT ![p] = NewID]
    /\ pc' = [pc EXCEPT ![p] = "idle"]
    /\ UNCHANGED <<seed, seededIDGen, seededIDLock, now, started, locked,
                   draws>>

\* the steps of a running call other than taking the lock
Inside(p) ==
    \/ ReadClock(p)
    \/ DrawHighRead(p)
    \/ DrawHigh(p)
    \/ DrawLowRead(p)
    \/ DrawLow(p)
    \/ Unlock(p)
    \/ Return(p)

Next ==
    \/ ClockAdvance
    \/ \E p \in Callers : \E g \in Generators : Call(p, g)
    \/ \E p \in Callers : Lock(p)
    \/ \E p \in Callers : Inside(p)

Spec == Init /\ [][Next]_vars

\* the scheduler runs every goroutine; the mutex hands the lock to every
\* waiter eventually (sync.Mutex starvation mode)
\* No guard of a call's steps reads a drawn value, so one seed is enough here.
FairInit == Init /\ seed = 1
FairSpec ==
    /\ FairInit /\ [][Next]_vars
    /\ \A p \in Callers : WF_vars(Inside(p))
    /\ \A p \in Callers : SF_vars(Lock(p))

\* ------------------------------------------------------------ properties
IsTS(rec) == rec.variant = "randomTimestamped"
Is128(rec) == rec.variant = "randomID128"
Is64(rec) == rec.variant = "randomID64"
Below2to32(s) == s[1] = 0 /\ s[2] = 0
MaxInt63 == <<Half - 1, Base - 1, Base - 1, Base - 1>>
MaxInt31 == <<0, 0, Half - 1, Base - 1>>
InCS(p) == pc[p] \in {"Now", "High", "HighAdv", "Low", "LowAdv", "Unlock"}
DrawsOf(rec) == {e \in draws : e.call = rec.call}

\* C1: every TraceID returned by a NewRandom64 generator has High = 0,
\* whatever calls of the other variants ran before or around it.
C1_High64Zero ==
    \A rec \in returned : Is64(rec) => rec.High = Zero64

C1_Witness ==
    \E rec \in returned, other \in returned :
        /\ Is64(rec) /\ ~Is64(other)
        /\ other.call < rec.call
        /\ rec.High = Zero64 /\ rec.Low # Zero64

\* C2: the Low of every returned TraceID is in 0 .. 2^63-1, and so is the
\* High of every TraceID of a NewRandom128 generator.
C2_Range63 ==
    \A rec \in returned :
        /\ rec.Low \in (0..(Half - 1)) \X (0..(Base - 1)) \X (0..(Base - 1))
                        \X (0..(Base - 1))
        /\ Is128(rec) =>
              rec.High \in (0..(Half - 1)) \X (0..(Base - 1))
                            \X (0..(Base - 1)) \X (0..(Base - 1))

C2_Witness ==
    \E rec \in returned :
        /\ Is128(rec)
        /\ rec.High = MaxInt63 /\ rec.Low = MaxInt63
        /\ \E e \in DrawsOf(rec) : e.raw[1] >= Half

\* C3: a time-prefixed TraceID has High = (s * 2^32 + r) mod 2^64, s the
\* seconds read and r the 31-bit value drawn: the upper half of High is the
\* lower half of s, the lower half of High is r; Low is another, 63-bit draw.
C3_TimestampLayout ==
    \A rec \in returned : IsTS(rec) =>
        /\ rec.r[1] = 0 /\ rec.r[2] = 0 /\ rec.r[3] < Half
        /\ rec.High = <<rec.sec[3], rec.sec[4], rec.r[3], rec.r[4]>>
        /\ rec.Low[1] < Half
        /\ \E eh \in DrawsOf(rec), el \in DrawsOf(rec) :
              /\ eh.field = "High" /\ el.field = "Low" /\ eh.pos # el.pos
              /\ Lower32(rec.r) = <<eh.raw[1] % Half, eh.raw[2]>>
              /\ rec.Low = <<el.raw[1] % Half, el.raw[2], el.raw[3], el.raw[4]>>

C3_Witness ==
    \E rec \in returned :
        /\ IsTS(rec)
        /\ rec.sec = <<0, 1, 0, 1>>
        /\ rec.r = MaxInt31
        /\ rec.High = <<0, 1, Half - 1, Base - 1>>

\* C4: two time-prefixed TraceIDs whose calls read the same second have the
\* same upper 32 bits of High, whatever was drawn.
C4_SameSecondSamePrefix ==
    \A a \in returned, b \in returned :
        (IsTS(a) /\ IsTS(b) /\ a.sec = b.sec) =>
            Upper32(a.High) = Upper32(b.High)

C4_Witness ==
    \E a \in returned, b \in returned :
        /\ IsTS(a) /\ IsTS(b) /\ a.call # b.call
        /\ a.sec = b.sec
        /\ a.r = MaxInt31 /\ b.r # a.r
        /\ Upper32(a.High) = Upper32(b.High)

\* C5: at most one caller is between Lock and Unlock, and a caller that is
\* about to read or advance the source holds the lock.
C5_MutualExclusion ==
    /\ Cardinality({p \in Callers : InCS(p)}) <= 1
    /\ \A p \in Callers : InCS(p) => seededIDLock = p

C5_Witness ==
    \E p \in Callers, q \in Callers :
        /\ p # q
        /\ pc[p] = "LowAdv" /\ seededIDLock = p
        /\ pc[q] = "Lock"
        /\ gen[p].variant = "randomTimestamped"
        /\ gen[q].variant = "randomID64"

\* C6: every consumed position of the source belongs to exactly one call,
\* and a two-draw call holds two adjacent positions: High first, then Low.
C6_ContiguousDraws ==
    /\ \A t \in 0..(seededIDGen - 1) :
          Cardinality({e \in draws : e.pos = t}) = 1
    /\ \A e \in draws : e.pos < seededIDGen
    /\ \A rec \in returned : ~Is64(rec) =>
          \E eh \in draws, el \in draws :
              /\ DrawsOf(rec) = {eh, el}
              /\ eh.field = "High" /\ el.field = "Low"
              /\ el.pos = eh.pos + 1
              /\ Lower32(rec.High) =
                    IF IsTS(rec) THEN <<eh.raw[1] % Half, eh.raw[2]>>
                    ELSE <<eh.raw[3], eh.raw[4]>>
              /\ Lower32(rec.Low) = <<el.raw[3], el.raw[4]>>

C6_Witness ==
    \E a \in returned, b \in returned :
        /\ Is128(a) /\ IsTS(b)
        /\ seededIDGen = 4
        /\ {e.pos : e \in DrawsOf(a)} \cup {e.pos : e \in DrawsOf(b)} = 0..3

\* C7: a caller that started a call returns from it; a caller that is not
\* between Lock and Unlock never holds the lock; whenever a call is running
\* some caller can take a step.
C7_EveryCallReturns ==
    /\ \A p \in Callers : (pc[p] # "idle") ~> (pc[p] = "idle")
    /\ [](\A p \in Callers : ~InCS(p) => seededIDLock # p)
    /\ []((\E p \in Callers : pc[p] # "idle") =>
             \E p \in Callers : ENABLED (Lock(p) \/ Inside(p)))

C7_Witness ==
    /\ started = MaxCalls
    /\ Cardinality(returned) = MaxCalls
    /\ \A p \in Callers : pc[p] = "idle"
    /\ seededIDLock = Free

\* C8 as stated: a later second gives a strictly greater High.
C8_AscendingBySecond ==
    \A a \in returned, b \in returned :
        (IsTS(a) /\ IsTS(b) /\ Lt64(a.sec, b.sec)) => Lt64(a.High, b.High)

\* C8 amended: a later second gives a strictly greater High as long as the
\* later second is below 2^32.
C8_AscendingBelow2to32 ==
    \A a \in returned, b \in returned :
        (IsTS(a) /\ IsTS(b) /\ Lt64(a.sec, b.sec) /\ Below2to32(b.sec)) =>
            Lt64(a.High, b.High)

C8_Witness ==
    \E a \in returned, b \in returned :
        /\ IsTS(a) /\ IsTS(b)
        /\ Lt64(a.sec, b.sec) /\ Below2to32(b.sec)
        /\ a.r = MaxInt31 /\ b.r # MaxInt31
        /\ Lt64(a.High, b.High)

\* C9: a call changes nothing but the position of the source: by one for
\* a 64-bit call and by two for the others when it unlocks; it leaves the
\* lock free, and identifiers returned earlier stay as they were.
C9_FrameOfACall ==
    [][ /\ returned \subseteq returned'
        /\ \A p \in Callers :
              /\ (pc[p] = "Unlock" /\ pc'[p] = "Return") =>
                    /\ seededIDGen - k[p] =
                          IF gen[p].variant = "randomID64" THEN 1 ELSE 2
                    /\ seededIDGen' = seededIDGen
                    /\ seededIDLock' = Free
              /\ (pc[p] = "Return" /\ pc'[p] = "idle") =>
                    /\ seededIDGen' = seededIDGen
                    /\ seededIDLock' = seededIDLock
                    /\ Cardinality(returned') = Cardinality(returned) + 1
              /\ pc'[p] # pc[p] =>
                    /\ now' = now
                    /\ \A q \in Callers \ {p} :
                          /\ id'[q] = id[q] /\ sec'[q] = sec[q]
                          /\ r'[q] = r[q] /\ gen'[q] = gen[q]
      ]_vars

C9_Witness ==
    \E a \in returned, b \in returned :
        /\ Is64(a) /\ a.to - a.from = 1
        /\ ~Is64(b) /\ b.to - b.from = 2
        /\ a.call < b.call
        /\ seededIDGen = 3
        /\ seededIDLock = Free

\* C10: with the clock never set back and seconds below 2^32, a
\* time-prefixed call that drew later positions of the source does not carry
\* a smaller upper half of High than one that drew earlier positions.
C10_PrefixFollowsDrawOrder ==
    \A a \in returned, b \in returned :
        ( /\ IsTS(a) /\ IsTS(b)
          /\ Below2to32(a.sec) /\ Below2to32(b.sec)
          /\ \A ea \in DrawsOf(a), eb \in DrawsOf(b) : ea.pos < eb.pos )
        => Le32(Upper32(a.High), Upper32(b.High))

C10_Witness ==
    \E a \in returned, b \in returned :
        /\ IsTS(a) /\ IsTS(b)
        /\ a.sec = <<0, 0, 0, 1>> /\ b.sec = <<0, 0, 32768, 0>>
        /\ \A ea \in DrawsOf(a), eb \in DrawsOf(b) : ea.pos < eb.pos
        /\ DrawsOf(a) # {} /\ DrawsOf(b) # {}
        /\ Upper32(a.High) # Upper32(b.High)

====
